---- MODULE Spec2Model ----
(***************************************************************************)
(* Model of the Braintree credit-card payment provider of pretix           *)
(* (pretix_braintree/payment.py, class BraintreeCC).                       *)
(*                                                                         *)
(* One browser session, one order.  Every handler of the provider is one   *)
(* action.  The Braintree gateway and the pretix order services are the    *)
(* environment: what a gateway call answers is an input of the action.     *)
(* `calls' is the sequence of outgoing calls the last handler made, in     *)
(* program order, `messages' the django messages it attached to its        *)
(* request, `result' what it returned or raised, `pre' what the session    *)
(* and the order held when it started, `post' the nonce field its request  *)
(* POSTed ('' when the request carried none).                              *)
(***************************************************************************)
EXTENDS Integers, Sequences, FiniteSets, TLC

\* ---- bounds ------------------------------------------------------------
MaxTokenLen == 2          \* POSTed nonces are "", "x", "xx"
MaxTxn == 2               \* the gateway issues at most this many transaction ids
MaxRequiredActions == 1   \* rows the RequiredAction table may hold

\* ---- values ------------------------------------------------------------
RECURSIVE Rep(_)
Rep(n) == IF n = 0 THEN "" ELSE "x" \o Rep(n - 1)

\* request.POST.get('payment_braintree_nonce', ''): a missing field reads ''
POSTValues == {Rep(k) : k \in 0..MaxTokenLen}

TxnId(i) == "txn_" \o ToString(i)

identifier == "braintreecc"
NonceKey == "payment_braintree_nonce"
OrderCode == "ABC12"
OrderTotal == "42.00"
GatewayMessage == "card declined"

MsgJavaScript == "You may need to enable JavaScript for credit card payments."
MsgManualTransfer == "We were unable to transfer the money back automatically. Please get in touch with the customer and transfer it back manually."
MsgMailError == "There was an error sending the confirmation mail."
MsgQuota == "no stock"
MsgChargeFailedPrefix == "Your payment failed because Braintree reported the following error: "
MsgChargeFailed == MsgChargeFailedPrefix \o GatewayMessage

VoidStatuses == {"authorized", "submitted_for_settlement"}
RefundStatuses == {"settled", "settling"}
OtherStatuses == {"voided", "failed"}
Statuses == VoidStatuses \cup RefundStatuses \cup OtherStatuses

\* what Transaction.sale with submit_for_settlement answers
SaleSuccessStatuses == {"submitted_for_settlement"}
SaleFailureStatuses == {"failed"}
RefundTxnId == "txn_r"

Transaction(id, status, refund_ids) ==
  [id |-> id, amount |-> OrderTotal, status |-> status, refund_ids |-> refund_ids]

\* ---- python values ------------------------------------------------------
None == <<>>   \* order.payment_info when empty: None and '' are both falsy

\* a dict is a function from its keys; json text is the sequence of its
\* "key": value members in the order the dict literal lists them
KeyOrder == <<"amount", "error", "id", "refund_ids", "status">>

json_dumps(d) ==
  LET ks == SelectSeq(KeyOrder, LAMBDA k : k \in DOMAIN d)
  IN  [i \in 1..Len(ks) |-> <<ks[i], d[ks[i]]>>]

json_loads(s) ==
  [k \in {s[i][1] : i \in DOMAIN s} |->
      s[CHOOSE i \in DOMAIN s : s[i][1] = k][2]]

_serialize(transaction) ==
  [amount |-> transaction.amount,
   id |-> transaction.id,
   refund_ids |-> transaction.refund_ids,
   status |-> transaction.status]

\* ---- session ------------------------------------------------------------
EmptySession == [k \in {} |-> ""]
SessionWith(token) == [k \in {NonceKey} |-> token]

payment_is_valid_session(sess) ==
  (IF NonceKey \in DOMAIN sess THEN sess[NonceKey] ELSE "") # ""

\* ---- host order services (pretix.base.services.orders) -------------------
\* mark_order_paid checks the quota first and raises before it touches the
\* order; otherwise it stores provider and info, sets the order paid and
\* saves it, and only then sends the confirmation mail.
MarkPaidOutcomes == {"ok", "quota", "mail"}

mark_order_paid(ord, provider, info, outcome) ==
  IF outcome = "quota"
  THEN ord
  ELSE [ord EXCEPT !.status = "p", !.payment_provider = provider,
                   !.payment_info = info]

mark_order_refunded(ord) == [ord EXCEPT !.status = "r"]

\* ---- a handler run --------------------------------------------------------
Return(v) == [kind |-> "return", value |-> v]
Raise(exc, msg) == [kind |-> "raise", exc |-> exc, msg |-> msg]

\* one outgoing call: the function, its arguments, what it answered
Call(fn, args, ret) == [fn |-> fn, args |-> args, ret |-> ret]

\* The frame of a run: the session, order and RequiredAction table it works
\* on, the calls and messages it has made so far, and its result.
Frame(sess, ord, ras) ==
  [session |-> sess, order |-> ord, required_actions |-> ras,
   calls |-> <<>>, messages |-> <<>>, result |-> Return("None")]

called(f, fn, args, ret) == [f EXCEPT !.calls = Append(@, Call(fn, args, ret))]

VARIABLES session, order, required_actions, issued, charges, op, post, pre, calls, messages, result

vars == <<session, order, required_actions, issued, charges, op, post, pre, calls, messages, result>>

Snapshot == [session |-> session, order |-> order]

NewOrder ==
  [code |-> OrderCode, status |-> "n", payment_provider |-> identifier,
   payment_info |-> None]

Init ==
  /\ session = EmptySession
  /\ order = NewOrder
  /\ required_actions = <<>>
  /\ issued = 0
  /\ charges = 0
  /\ op = "init"
  /\ post = ""
  /\ pre = [session |-> EmptySession, order |-> NewOrder]
  /\ calls = <<>>
  /\ messages = <<>>
  /\ result = Return("None")

\* the frame a handler leaves becomes the state
Finish(name, f) ==
  /\ session' = f.session
  /\ order' = f.order
  /\ required_actions' = f.required_actions
  /\ calls' = f.calls
  /\ messages' = f.messages
  /\ result' = f.result
  /\ op' = name
  /\ pre' = Snapshot

\* ---- checkout_prepare / order_prepare ------------------------------------
\* (variant: an empty token also drops the nonce stored before)
checkout_prepare_clears(f, token) ==
  IF token = ""
  THEN [f EXCEPT !.session = [k \in DOMAIN @ \ {NonceKey} |-> @[k]],
                 !.messages = Append(@, <<"error", MsgJavaScript>>),
                 !.result = Return("False")]
  ELSE [f EXCEPT !.session = [k \in DOMAIN @ \cup {NonceKey} |->
                                 IF k = NonceKey THEN token ELSE @[k]],
                 !.result = Return("True")]

checkout_prepare(f, token) ==
  IF token = ""
  THEN [f EXCEPT !.messages = Append(@, <<"error", MsgJavaScript>>),
                 !.result = Return("False")]
  ELSE [f EXCEPT !.session = [k \in DOMAIN @ \cup {NonceKey} |->
                                 IF k = NonceKey THEN token ELSE @[k]],
                 !.result = Return("True")]

\* charges counts the sales submitted with the nonce now stored, up to 2
\* ("more than one"); storing a nonce starts the count afresh.
CheckoutPrepare ==
  \E token \in POSTValues :
    /\ Finish("checkout_prepare",
              checkout_prepare(Frame(session, order, required_actions), token))
    /\ post' = token
    /\ charges' = IF token = "" THEN charges ELSE 0
    /\ UNCHANGED issued

\* ---- braintree.Transaction.sale -------------------------------------------
NoTransaction == [k \in {} |-> ""]   \* result.transaction is None

\* A sale either raises a BraintreeError (network, authentication, protocol),
\* or answers a result: success with a new transaction, failure with the
\* transaction the gateway recorded, or failure with a message only.
SaleOutcomes(n) ==
  {[kind |-> "raise"]}
  \cup {[kind |-> "result", is_success |-> FALSE,
         transaction |-> NoTransaction, message |-> GatewayMessage]}
  \cup (IF n < MaxTxn
        THEN {[kind |-> "result", is_success |-> TRUE,
               transaction |-> Transaction(TxnId(n + 1), st, <<>>),
               message |-> ""] : st \in SaleSuccessStatuses}
             \cup
             {[kind |-> "result", is_success |-> FALSE,
               transaction |-> Transaction(TxnId(n + 1), st, <<>>),
               message |-> GatewayMessage] : st \in SaleFailureStatuses}
        ELSE {})

CreatesTransaction(sale) ==
  sale.kind = "result" /\ DOMAIN sale.transaction # {}

\* ---- payment_perform ------------------------------------------------------
\* (variant: the charge is voided when the quota is exceeded)
quota_exceeded_voids(f) ==
  [called(called(f, "RequiredAction.objects.create",
                 <<"pretix_braintree.overpaid",
                   json_dumps([order |-> f.order.code])>>, "None"),
          "Transaction.void", <<f.calls[1].ret.transaction.id>>,
          [kind |-> "result", is_success |-> TRUE, message |-> ""])
     EXCEPT !.required_actions =
              Append(@, [action_type |-> "pretix_braintree.overpaid",
                         data |-> json_dumps([order |-> f.order.code])]),
            !.result = Raise("PaymentException", MsgQuota)]

\* (variant: the exception is raised but no RequiredAction is recorded)
quota_exceeded_unrecorded(f) ==
  [f EXCEPT !.result = Raise("PaymentException", MsgQuota)]

\* except Quota.QuotaExceededException
quota_exceeded(f) ==
  [called(f, "RequiredAction.objects.create",
          <<"pretix_braintree.overpaid", json_dumps([order |-> f.order.code])>>,
          "None")
     EXCEPT !.required_actions =
              Append(@, [action_type |-> "pretix_braintree.overpaid",
                         data |-> json_dumps([order |-> f.order.code])]),
            !.result = Raise("PaymentException", MsgQuota)]

\* (variant: the charge is voided when the mail cannot be sent)
mail_failed_voids(f) ==
  [called(f, "Transaction.void", <<json_loads(f.order.payment_info)["id"]>>,
          [kind |-> "result", is_success |-> TRUE, message |-> ""])
     EXCEPT !.order.status = "n",
            !.result = Raise("PaymentException", MsgMailError)]

\* except SendMailException
mail_failed(f) == [f EXCEPT !.result = Raise("PaymentException", MsgMailError)]

\* del request.session['payment_braintree_nonce']
delete_nonce(f) ==
  [called(f, "del session", <<NonceKey>>, "None")
     EXCEPT !.session = [k \in DOMAIN @ \ {NonceKey} |-> @[k]]]

\* if result.is_success: paid is how mark_order_paid ends
charge_succeeded(f, transaction, paid) ==
  LET info == json_dumps(_serialize(transaction))
      f2 == [called(f, "mark_order_paid", <<identifier, info>>, paid)
               EXCEPT !.order = mark_order_paid(@, identifier, info, paid)]
  IN  CASE paid = "quota" -> quota_exceeded(f2)
        [] paid = "mail" -> mail_failed(f2)
        [] OTHER -> delete_nonce(f2)

\* (variant: the order is marked paid although the sale failed)
charge_failed_marks_paid(f, sale) ==
  LET info == IF DOMAIN sale.transaction # {}
              THEN json_dumps(_serialize(sale.transaction))
              ELSE json_dumps([error |-> sale.message])
  IN  [called(f, "mark_order_paid", <<identifier, info>>, "ok")
         EXCEPT !.order = mark_order_paid(@, identifier, info, "ok"),
                !.result = Raise("PaymentException",
                                 MsgChargeFailedPrefix \o sale.message)]

\* (variant: the exception is raised without writing the failure record)
charge_failed_unsaved(f, sale) ==
  [f EXCEPT !.result = Raise("PaymentException",
                             MsgChargeFailedPrefix \o sale.message)]

\* else: the failure result
charge_failed(f, sale) ==
  LET info == IF DOMAIN sale.transaction # {}
              THEN json_dumps(_serialize(sale.transaction))
              ELSE json_dumps([error |-> sale.message])
  IN  [called(f, "order.save", <<>>, "None")
         EXCEPT !.order.payment_info = info,
                !.result = Raise("PaymentException",
                                 MsgChargeFailedPrefix \o sale.message)]

\* (variant: the nonce is taken out of the session before the sale is made)
payment_perform_pops_nonce(f, sale, paid) ==
  IF NonceKey \notin DOMAIN f.session
  THEN [f EXCEPT !.result = Raise("KeyError", NonceKey)]
  ELSE
  LET f1 == called(delete_nonce(f), "Transaction.sale",
                   <<OrderTotal, f.session[NonceKey]>>, sale)
  IN  IF sale.kind = "raise"
      THEN [f1 EXCEPT !.result = Raise("BraintreeError", "")]
      ELSE IF sale.is_success
      THEN charge_succeeded(f1, sale.transaction, paid)
      ELSE charge_failed(f1, sale)

\* sale: what Transaction.sale answers
payment_perform(f, sale, paid) ==
  IF NonceKey \notin DOMAIN f.session
  THEN \* request.session['payment_braintree_nonce'] raises before the sale
       [f EXCEPT !.result = Raise("KeyError", NonceKey)]
  ELSE
  LET f1 == called(f, "Transaction.sale",
                   <<OrderTotal, f.session[NonceKey]>>, sale)
  IN  IF sale.kind = "raise"
      THEN [f1 EXCEPT !.result = Raise("BraintreeError", "")]
      ELSE IF sale.is_success
      THEN charge_succeeded(f1, sale.transaction, paid)
      ELSE charge_failed(f1, sale)

\* mark_order_paid is only reached after a successful sale
MarkPaidOutcomesFor(sess, sale) ==
  IF NonceKey \in DOMAIN sess /\ sale.kind = "result" /\ sale.is_success
  THEN MarkPaidOutcomes ELSE {"ok"}

\* order_can_retry: whether the provider is still available for this event
order_can_retry(is_still_available) == is_still_available

\* The host hands an order to payment_perform only while it is pending: at
\* checkout, or on a later attempt that order_can_retry allowed.
HostPays(ord, is_still_available) ==
  /\ ord.status = "n"
  /\ Len(ord.payment_info) > 0 => order_can_retry(is_still_available)

PaymentPerform ==
  \E sale \in SaleOutcomes(issued) :
  \E paid \in MarkPaidOutcomesFor(session, sale) :
  \E is_still_available \in BOOLEAN :
    /\ HostPays(order, is_still_available)
    /\ (paid = "quota" => Len(required_actions) < MaxRequiredActions)
    /\ Finish("payment_perform",
              payment_perform(Frame(session, order, required_actions), sale, paid))
    /\ issued' = IF NonceKey \in DOMAIN session /\ CreatesTransaction(sale)
                 THEN issued + 1 ELSE issued
    /\ charges' = IF NonceKey \in DOMAIN session /\ charges < 2
                  THEN charges + 1 ELSE charges
    /\ post' = ""

\* ---- braintree.Transaction.find / void / refund ---------------------------
\* find raises (NotFoundError and the other BraintreeErrors) or answers the
\* transaction of that id in whatever status the gateway has it; only a
\* transaction that has settled can list refunds.
FindAnswers ==
  {[kind |-> "raise"]}
  \cup {[kind |-> "found", status |-> st, refund_ids |-> <<>>] : st \in Statuses}
  \cup {[kind |-> "found", status |-> st, refund_ids |-> <<RefundTxnId>>] :
          st \in RefundStatuses}

find(id, answer) == Transaction(id, answer.status, answer.refund_ids)

\* void and refund raise or answer a success or failure result
ReverseAnswers ==
  {[kind |-> "raise"],
   [kind |-> "result", is_success |-> TRUE, message |-> ""],
   [kind |-> "result", is_success |-> FALSE, message |-> GatewayMessage]}

\* ---- order_control_refund_perform -------------------------------------------
\* mark_order_refunded(order, user=request.user), with or without the
\* messages.warning that follows it
refunded(f) ==
  [called(f, "mark_order_refunded", <<f.order.code>>, "None")
     EXCEPT !.order = mark_order_refunded(@)]

warned(f) == [f EXCEPT !.messages = Append(@, <<"warning", MsgManualTransfer>>)]

\* payment_info = json.loads(order.payment_info) if order.payment_info else None
load_payment_info(ord) ==
  IF Len(ord.payment_info) > 0 THEN json_loads(ord.payment_info) ELSE NoTransaction

\* if not payment_info or 'id' not in payment_info
no_reference(payment_info) ==
  DOMAIN payment_info = {} \/ "id" \notin DOMAIN payment_info

\* (variant: the order is marked refunded without the warning)
refund_no_reference_silent(f) == refunded(f)

refund_no_reference(f) == warned(refunded(f))

\* (variant: submitted_for_settlement is sent to refund)
reverse_call_refunds_submitted(status) ==
  IF status \in {"authorized"} THEN "Transaction.void"
  ELSE IF status \in {"submitted_for_settlement", "settled", "settling"}
  THEN "Transaction.refund"
  ELSE "none"

\* (variant: settling is sent to void)
reverse_call_voids_settling(status) ==
  IF status \in {"authorized", "submitted_for_settlement", "settling"}
  THEN "Transaction.void"
  ELSE IF status \in {"settled"} THEN "Transaction.refund"
  ELSE "none"

\* the if / elif / else on transaction.status
reverse_call(status) ==
  IF status \in {"authorized", "submitted_for_settlement"} THEN "Transaction.void"
  ELSE IF status \in {"settled", "settling"} THEN "Transaction.refund"
  ELSE "none"

\* (variant: the invalid state is only warned about)
refund_invalid_state_unmarked(f) == warned(f)

\* else: refund of invalid state requested
refund_invalid_state(f) == warned(refunded(f))

\* (variant: the order is marked refunded but the snapshot is not stored)
refund_succeeded_unsaved(f, transaction) == refunded(f)

\* (variant: the record of the refund transaction is stored instead)
refund_succeeded_stores_refund(f, transaction) ==
  [called(refunded(f), "order.save", <<>>, "None")
     EXCEPT !.order.payment_info =
              json_dumps(_serialize([transaction EXCEPT !.id = RefundTxnId]))]

\* if result.is_success: transaction is what the second find answered
refund_succeeded(f, transaction) ==
  [called(refunded(f), "order.save", <<>>, "None")
     EXCEPT !.order.payment_info = json_dumps(_serialize(transaction))]

\* (variant: the failure is not reported to the operator)
refund_failed_unwarned(f) == refunded(f)

\* else: refund/void failed
refund_failed(f) == warned(refunded(f))

\* (variant: the error is only warned about)
refund_except_unmarked(f) == warned(f)

\* except BraintreeError
refund_except(f) == warned(refunded(f))

\* f1: answer of the first find; rev: answer of void/refund; f2: answer of
\* the find after a successful void/refund.
order_control_refund_perform(f, f1, rev, f2) ==
  LET payment_info == load_payment_info(f.order)
  IN
  IF no_reference(payment_info) THEN refund_no_reference(f)
  ELSE
  LET id == payment_info["id"]
      a == called(f, "Transaction.find", <<id>>, f1)
  IN
  IF f1.kind = "raise" THEN refund_except(a)
  ELSE
  LET transaction == find(id, f1)
      reverse == reverse_call(transaction.status)
      b == called(a, reverse, <<id>>, rev)
  IN
  IF reverse = "none" THEN refund_invalid_state(a)
  ELSE IF rev.kind = "raise" THEN refund_except(b)
  ELSE IF rev.is_success
  THEN LET c == called(b, "Transaction.find", <<id>>, f2)
       IN  IF f2.kind = "raise" THEN refund_except(c)
           ELSE refund_succeeded(c, find(id, f2))
  ELSE refund_failed(b)

\* The answers a run of the handler consults: no gateway call without a
\* stored id (of the first answer the handler reads the status only),
\* void/refund only in the four reversible statuses, the second find only
\* after a successful void/refund.
FirstFindAnswers(ord) ==
  IF no_reference(load_payment_info(ord))
  THEN {[kind |-> "raise"]}
  ELSE {a \in FindAnswers : a.kind = "found" => a.refund_ids = <<>>}

ReverseAnswersFor(f1) ==
  IF f1.kind = "found" /\ reverse_call(f1.status) # "none"
  THEN ReverseAnswers ELSE {[kind |-> "raise"]}

SecondFindAnswers(f1, rev) ==
  IF f1.kind = "found" /\ rev.kind = "result" /\ rev.is_success
  THEN FindAnswers ELSE {[kind |-> "raise"]}

OrderControlRefundPerform ==
  \E f1 \in FirstFindAnswers(order) :
  \E rev \in ReverseAnswersFor(f1) :
  \E f2 \in SecondFindAnswers(f1, rev) :
    /\ Finish("order_control_refund_perform",
              order_control_refund_perform(Frame(session, order, required_actions),
                                           f1, rev, f2))
    /\ post' = ""
    /\ UNCHANGED <<issued, charges>>

Next == CheckoutPrepare \/ PaymentPerform \/ OrderControlRefundPerform

Spec == Init /\ [][Next]_vars

\* ==== properties ==========================================================
CallsOf(fn) == {i \in DOMAIN calls : calls[i].fn = fn}
Count(fn) == Cardinality(CallsOf(fn))
GatewayFns == {"Transaction.sale", "Transaction.find", "Transaction.void",
               "Transaction.refund"}
NoGatewayCall == \A i \in DOMAIN calls : calls[i].fn \notin GatewayFns

Performed == op = "payment_perform"
Refunding == op = "order_control_refund_perform"

\* the last run was a payment_perform whose sale answered success
ChargeSucceeded ==
  /\ Performed
  /\ Len(calls) >= 2
  /\ calls[1].fn = "Transaction.sale"
  /\ calls[1].ret.kind = "result"
  /\ calls[1].ret.is_success

\* the last run was a refund whose first find answered a status in S
FoundIn(S) ==
  /\ Refunding
  /\ Len(calls) >= 1
  /\ calls[1].fn = "Transaction.find"
  /\ calls[1].ret.kind = "found"
  /\ calls[1].ret.status \in S

StoredId(info) == json_loads(info)["id"]
HasId(info) == Len(info) > 0 /\ "id" \in DOMAIN json_loads(info)

\* C1: after a payment_perform that started with a nonce in the session and
\* whose sale was answered (success or failure result, whatever
\* mark_order_paid did then), the session no longer holds the nonce.
C1_NonceConsumed ==
  (/\ Performed
   /\ NonceKey \in DOMAIN pre.session
   /\ calls[1].ret.kind = "result") => NonceKey \notin DOMAIN session

\* C2: a captured nonce is submitted to the gateway in at most one sale.
C2_ChargeOncePerNonce == charges <= 1

\* C3: every run of order_control_refund_perform calls mark_order_refunded
\* exactly once and leaves the order refunded.
C3_RefundAlwaysMarks ==
  Refunding => Count("mark_order_refunded") = 1 /\ order.status = "r"

\* a refund run whose second find raised
C3_Witness ==
  /\ Refunding
  /\ Len(calls) = 4
  /\ calls[3].fn = "Transaction.find"
  /\ calls[3].ret.kind = "raise"
  /\ calls[4].fn = "mark_order_refunded"

\* C4: when the sale succeeds and mark_order_paid raises QuotaExceeded, the
\* order's payment_info afterwards is the serialized successful transaction.
C4_RecordSurvivesQuota ==
  (ChargeSucceeded /\ calls[2].ret = "quota") =>
     order.payment_info = json_dumps(_serialize(calls[1].ret.transaction))

\* C5: when the sale succeeds and mark_order_paid raises QuotaExceeded, the
\* run creates exactly one overpaid RequiredAction naming the order, after
\* mark_order_paid, and raises PaymentException.
C5_QuotaIsSurfaced ==
  (ChargeSucceeded /\ calls[2].ret = "quota") =>
     /\ Count("RequiredAction.objects.create") = 1
     /\ Len(calls) = 3
     /\ calls[3] = Call("RequiredAction.objects.create",
                        <<"pretix_braintree.overpaid",
                          json_dumps([order |-> order.code])>>, "None")
     /\ Len(required_actions) >= 1
     /\ required_actions[Len(required_actions)] =
          [action_type |-> "pretix_braintree.overpaid",
           data |-> json_dumps([order |-> order.code])]
     /\ result.kind = "raise"
     /\ result.exc = "PaymentException"

C5_Witness == ChargeSucceeded /\ calls[2].ret = "quota" /\ result.kind = "raise"

\* C6: when find answers authorized or submitted_for_settlement, the run
\* calls void once on the stored id and never calls refund.
C6_VoidWhenUnsettled ==
  FoundIn(VoidStatuses) =>
     /\ Count("Transaction.void") = 1
     /\ Count("Transaction.refund") = 0
     /\ calls[2].fn = "Transaction.void"
     /\ calls[2].args = <<StoredId(pre.order.payment_info)>>

C6_Witness ==
  FoundIn({"submitted_for_settlement"}) /\ calls[2].fn = "Transaction.void"

\* C7: when find answers settled or settling, the run calls refund once on
\* the stored id and never calls void.
C7_RefundWhenSettled ==
  FoundIn(RefundStatuses) =>
     /\ Count("Transaction.refund") = 1
     /\ Count("Transaction.void") = 0
     /\ calls[2].fn = "Transaction.refund"
     /\ calls[2].args = <<StoredId(pre.order.payment_info)>>

C7_Witness == FoundIn({"settling"}) /\ calls[2].fn = "Transaction.refund"

\* C8: when find answers any other status, the run calls neither void nor
\* refund, warns that a manual transfer is needed and calls
\* mark_order_refunded exactly once.
C8_OtherStatusOnlyMarks ==
  FoundIn(Statuses \ (VoidStatuses \cup RefundStatuses)) =>
     /\ Count("Transaction.void") = 0
     /\ Count("Transaction.refund") = 0
     /\ messages = << <<"warning", MsgManualTransfer>> >>
     /\ Count("mark_order_refunded") = 1
     /\ order.status = "r"

C8_Witness == FoundIn({"voided"}) /\ order.status = "r"

\* C9: a refund run on an order without payment_info, or with payment_info
\* that has no 'id', calls mark_order_refunded, warns that a manual transfer
\* is needed and makes no gateway call.
C9_NoReferenceNoGateway ==
  (Refunding /\ no_reference(load_payment_info(pre.order))) =>
     /\ Count("mark_order_refunded") = 1
     /\ order.status = "r"
     /\ messages = << <<"warning", MsgManualTransfer>> >>
     /\ NoGatewayCall

\* a refund run on an order that holds {"error": ...}
C9_Witness ==
  /\ Refunding
  /\ Len(pre.order.payment_info) > 0
  /\ ~HasId(pre.order.payment_info)
  /\ order.status = "r"

\* C10: when the sale succeeds with a transaction of id r, the run calls
\* mark_order_paid exactly once with 'braintreecc' and the record of r, and
\* afterwards the order's payment_info contains the id r.
C10_PaidWithReference ==
  ChargeSucceeded =>
     /\ Count("mark_order_paid") = 1
     /\ calls[2].fn = "mark_order_paid"
     /\ calls[2].args[1] = "braintreecc"
     /\ StoredId(calls[2].args[2]) = calls[1].ret.transaction.id
     /\ HasId(order.payment_info)
     /\ StoredId(order.payment_info) = calls[1].ret.transaction.id

\* the last run was a payment_perform whose sale answered a failure result
ChargeFailed ==
  /\ Performed
  /\ Len(calls) >= 1
  /\ calls[1].fn = "Transaction.sale"
  /\ calls[1].ret.kind = "result"
  /\ ~calls[1].ret.is_success

\* C11: when the sale answers a failure result, the run writes the failure
\* record to the order (the record of the transaction the gateway returned,
\* else exactly {"error": message}), saves the order, raises
\* PaymentException with the gateway's message and never calls
\* mark_order_paid.
C11_FailureIsRecorded ==
  ChargeFailed =>
     /\ IF DOMAIN calls[1].ret.transaction = {}
        THEN json_loads(order.payment_info) = [error |-> calls[1].ret.message]
        ELSE /\ HasId(order.payment_info)
             /\ StoredId(order.payment_info) = calls[1].ret.transaction.id
             /\ json_loads(order.payment_info)["status"] =
                  calls[1].ret.transaction.status
     /\ Len(calls) = 2
     /\ calls[2].fn = "order.save"
     /\ result = Raise("PaymentException",
                       MsgChargeFailedPrefix \o calls[1].ret.message)
     /\ Count("mark_order_paid") = 0
     /\ order.status = pre.order.status

\* a failure without a transaction, on an order that held something else
C11_Witness ==
  /\ ChargeFailed
  /\ DOMAIN calls[1].ret.transaction = {}
  /\ pre.order.payment_info # order.payment_info

\* the last run was a payment_perform whose sale raised a BraintreeError
ChargeRaised ==
  /\ Performed
  /\ Len(calls) >= 1
  /\ calls[1].fn = "Transaction.sale"
  /\ calls[1].ret.kind = "raise"

\* C12: a BraintreeError raised by the sale reaches the caller of
\* payment_perform as a PaymentException, and the sale is not repeated.
C12_FaultIsPaymentException ==
  ChargeRaised =>
     /\ result.kind = "raise"
     /\ result.exc = "PaymentException"
     /\ Count("Transaction.sale") = 1

\* the last run was a refund whose void/refund answered success
ReverseSucceeded ==
  /\ Refunding
  /\ Len(calls) >= 3
  /\ calls[2].fn \in {"Transaction.void", "Transaction.refund"}
  /\ calls[2].ret.kind = "result"
  /\ calls[2].ret.is_success

\* the record a find answer serializes to
SnapshotOf(id, answer) ==
  [amount |-> OrderTotal, id |-> id, refund_ids |-> answer.refund_ids,
   status |-> answer.status]

\* C13 (as stated): whenever void/refund answers success, the run ends with
\* payment_info equal to the snapshot of a find made after the void/refund
\* and with the order refunded.
C13_SuccessStoresSnapshot ==
  ReverseSucceeded =>
     /\ calls[3].fn = "Transaction.find"
     /\ calls[3].ret.kind = "found"
     /\ json_loads(order.payment_info) =
          SnapshotOf(StoredId(pre.order.payment_info), calls[3].ret)
     /\ order.status = "r"

\* C13 (amended): whenever void/refund answers success, the run makes a find
\* after it and ends with the order refunded; if that find answers a
\* transaction, payment_info is replaced by its snapshot; if it raises,
\* payment_info keeps the old record and the manual-transfer warning is
\* surfaced.
C13_SuccessStoresSnapshotIfFound ==
  ReverseSucceeded =>
     /\ calls[3].fn = "Transaction.find"
     /\ calls[3].args = <<StoredId(pre.order.payment_info)>>
     /\ order.status = "r"
     /\ Count("mark_order_refunded") = 1
     /\ IF calls[3].ret.kind = "found"
        THEN /\ json_loads(order.payment_info) =
                  SnapshotOf(StoredId(pre.order.payment_info), calls[3].ret)
             /\ messages = <<>>
        ELSE /\ order.payment_info = pre.order.payment_info
             /\ messages = << <<"warning", MsgManualTransfer>> >>

\* a successful void whose second find answered a new status
C13_Witness ==
  /\ ReverseSucceeded
  /\ calls[3].ret.kind = "found"
  /\ calls[3].ret.status = "voided"
  /\ order.payment_info # pre.order.payment_info

C15_EmptyTokenChangesNothing ==
  op = "checkout_prepare" =>
     IF post = ""
     THEN /\ result = Return("False")
          /\ messages = << <<"error", MsgJavaScript>> >>
          /\ session = pre.session
     ELSE /\ result = Return("True")
          /\ DOMAIN session = DOMAIN pre.session \cup {NonceKey}
          /\ session[NonceKey] = post
          /\ messages = <<>>

\* an empty token posted while a nonce was stored
C15_Witness ==
  /\ op = "checkout_prepare"
  /\ post = ""
  /\ NonceKey \in DOMAIN pre.session
  /\ session = pre.session

\* C16: when the sale succeeds and mark_order_paid raises SendMailException,
\* the run raises PaymentException with the mail message and does nothing
\* else: no void, no refund, no further call, and the order stays as
\* mark_order_paid left it (paid, with the transaction's record).
C16_MailFailureKeepsPayment ==
  (ChargeSucceeded /\ calls[2].ret = "mail") =>
     /\ result = Raise("PaymentException", MsgMailError)
     /\ Count("Transaction.void") = 0
     /\ Count("Transaction.refund") = 0
     /\ Len(calls) = 2
     /\ order.status = "p"
     /\ HasId(order.payment_info)
     /\ StoredId(order.payment_info) = calls[1].ret.transaction.id

C16_Witness ==
  ChargeSucceeded /\ calls[2].ret = "mail" /\ order.status = "p"

\* the gateway calls of the last run that raised or answered a failure
FailedGatewayCalls ==
  {i \in DOMAIN calls :
     /\ calls[i].fn \in GatewayFns
     /\ \/ calls[i].ret.kind = "raise"
        \/ (calls[i].ret.kind = "result" /\ ~calls[i].ret.is_success)}

\* C17: when void/refund answers a failure result, or a gateway call of the
\* refund run raises, the run marks the order refunded, warns that a manual
\* transfer is needed, leaves payment_info as it was and makes no gateway
\* call after the failed one; a run calls void or refund at most once.
C17_FailureEscalates ==
  Refunding =>
     /\ Count("Transaction.void") + Count("Transaction.refund") <= 1
     /\ \A i \in FailedGatewayCalls :
          /\ order.status = "r"
          /\ Count("mark_order_refunded") = 1
          /\ messages = << <<"warning", MsgManualTransfer>> >>
          /\ order.payment_info = pre.order.payment_info
          /\ \A j \in DOMAIN calls : j > i => calls[j].fn \notin GatewayFns

\* a refund that answered a failure result
C17_Witness ==
  /\ Refunding
  /\ Len(calls) = 3
  /\ calls[2].fn = "Transaction.refund"
  /\ calls[2].ret.kind = "result"
  /\ ~calls[2].ret.is_success
  /\ order.status = "r"

\* C18: within payment_perform the nonce is never deleted before the sale
\* has been answered: every deletion in a run comes after a sale of that run
\* that answered a result, and the nonce leaves the session only by such a
\* deletion.
C18_NonceOutlivesSale ==
  Performed =>
     /\ \A i \in CallsOf("del session") :
          \E j \in CallsOf("Transaction.sale") :
             j < i /\ calls[j].ret.kind = "result"
     /\ (NonceKey \in DOMAIN pre.session /\ NonceKey \notin DOMAIN session)
          => Count("del session") = 1

\* a run that deleted the nonce
C18_Witness ==
  /\ Performed
  /\ Count("del session") = 1
  /\ NonceKey \in DOMAIN pre.session
  /\ NonceKey \notin DOMAIN session

\* C19: payment_perform never calls void or refund, whatever mark_order_paid
\* does after a successful sale, and calls sale at most once.
C19_ChargeNeverReverses ==
  Performed =>
     /\ Count("Transaction.void") = 0
     /\ Count("Transaction.refund") = 0
     /\ Count("Transaction.sale") <= 1

\* a successful sale after which mark_order_paid raised
C19_Witness ==
  /\ ChargeSucceeded
  /\ calls[2].ret \in {"quota", "mail"}
  /\ Count("Transaction.sale") = 1
  /\ result.kind = "raise"

\* C20: mark_order_paid is called only in a payment_perform run, after the
\* sale of that run answered success; a run whose sale failed, raised or was
\* never made (no valid nonce in the session) does not call it and does not
\* make the order paid.
C20_PaidOnlyAfterSuccess ==
  /\ \A i \in CallsOf("mark_order_paid") :
       /\ Performed
       /\ i > 1
       /\ calls[1].fn = "Transaction.sale"
       /\ calls[1].ret.kind = "result"
       /\ calls[1].ret.is_success
  /\ (order.status = "p" /\ pre.order.status # "p") => ChargeSucceeded
  /\ (Performed /\ ~payment_is_valid_session(pre.session)) =>
       /\ calls = <<>>
       /\ result = Raise("KeyError", NonceKey)
       /\ order = pre.order

\* a run that marked the order paid
C20_Witness ==
  /\ ChargeSucceeded
  /\ calls[2].fn = "mark_order_paid"
  /\ calls[2].ret = "ok"
  /\ order.status = "p"
  /\ pre.order.status = "n"
====
